---- MODULE Spec2Model ----
(***************************************************************************)
(* Bank ledger of the Bank-CLI repository: accounts (checking / savings)   *)
(* with their transactions, the rules that accept or reject an append      *)
(* (chronological order, savings rate limits, overdraft) and the monthly   *)
(* interest / fee accrual.                                                 *)
(*                                                                         *)
(* The session is modelled as a store that returns what was added to it:   *)
(* Decimal values are kept exactly as computed (a Decimal is a sequence of *)
(* base-10000 limbs, limb 1 holding whole dollars), a query sees every row *)
(* added before it, and a row whose non-nullable date is None cannot be    *)
(* flushed.                                                                *)
(***************************************************************************)
EXTENDS Integers, Sequences, FiniteSets, TLC

VARIABLES accounts, transactions, last, halted, accrual_called, pending, overlapped

vars == <<accounts, transactions, last, halted, accrual_called, pending, overlapped>>

(***************************************************************************)
(* Bounds of the model.                                                    *)
(***************************************************************************)
MaxTransactions == 5
MaxAccounts == 2
MaxLedger == 2
MaxListed == 4
MaxAppends == 3
MaxFeeRows == 6

(***************************************************************************)
(* decimal.Decimal: exact fixed-point values.  <<a1, a2, ..., an>> stands  *)
(* for a1 + a2/10000 + a3/10000^2 + ...; in normal form a2..an are in      *)
(* 0..9999 and an # 0 unless n = 1, so equal values are equal sequences.   *)
(***************************************************************************)
RECURSIVE DecCarry(_, _)
DecCarry(s, i) ==
    IF i = 1 THEN s
    ELSE DecCarry(SubSeq(s, 1, i - 2)
                     \o <<s[i - 1] + (s[i] \div 10000), s[i] % 10000>>
                     \o SubSeq(s, i + 1, Len(s)), i - 1)

RECURSIVE DecStrip(_)
DecStrip(s) ==
    IF Len(s) > 1 /\ s[Len(s)] = 0 THEN DecStrip(SubSeq(s, 1, Len(s) - 1)) ELSE s

DecNorm(s) == DecStrip(DecCarry(s, Len(s)))

DecLimb(a, i) == IF i \in 1..Len(a) THEN a[i] ELSE 0

DecAdd(a, b) ==
    LET n == IF Len(a) > Len(b) THEN Len(a) ELSE Len(b)
    IN  DecNorm([i \in 1..n |-> DecLimb(a, i) + DecLimb(b, i)])

DecNeg(a) == DecNorm([i \in 1..Len(a) |-> 0 - a[i]])

RECURSIVE DecConv(_, _, _, _)
\* sum over i in 1..j of a[i] * b[k - i + 1]
DecConv(a, b, k, j) ==
    IF j = 0 THEN 0
    ELSE DecLimb(a, j) * DecLimb(b, k - j + 1) + DecConv(a, b, k, j - 1)

DecMul(a, b) ==
    LET n == Len(a) + Len(b) - 1
    IN  DecNorm([k \in 1..n |-> DecConv(a, b, k, k)])

DecLT(a, b) == DecAdd(a, DecNeg(b))[1] < 0

DecZero == <<0>>

(***************************************************************************)
(* datetime.date: <<year, month, day>>, compared field by field; None is   *)
(* the value of a date attribute that was never set.                       *)
(***************************************************************************)
None == <<0, 0, 0>>

DateLT(d, e) ==
    \/ d[1] < e[1]
    \/ d[1] = e[1] /\ d[2] < e[2]
    \/ d[1] = e[1] /\ d[2] = e[2] /\ d[3] < e[3]

IsLeap(y) == (y % 4 = 0) /\ ((y % 100 # 0) \/ (y % 400 = 0))

DaysInMonth(y, m) ==
    IF m = 2 THEN (IF IsLeap(y) THEN 29 ELSE 28)
    ELSE IF m \in {4, 6, 9, 11} THEN 30 ELSE 31

RECURSIVE DaysBeforeMonth(_, _)
DaysBeforeMonth(y, m) ==
    IF m = 1 THEN 0 ELSE DaysBeforeMonth(y, m - 1) + DaysInMonth(y, m - 1)

DaysBeforeYear(y) ==
    LET p == y - 1 IN p * 365 + (p \div 4) - (p \div 100) + (p \div 400)

toordinal(d) == DaysBeforeYear(d[1]) + DaysBeforeMonth(d[1], d[2]) + d[3]

RECURSIVE MonthOfDay(_, _, _)
\* the month and day of the n-th day (from 1) of year y, searched from month m
MonthOfDay(y, m, n) ==
    IF n <= DaysInMonth(y, m) THEN <<y, m, n>>
    ELSE MonthOfDay(y, m + 1, n - DaysInMonth(y, m))

RECURSIVE YearOfOrdinal(_, _)
\* the year holding ordinal n, searched upwards from the lower bound y
YearOfOrdinal(y, n) ==
    IF n > DaysBeforeYear(y + 1) THEN YearOfOrdinal(y + 1, n) ELSE y

fromordinal(n) ==
    LET y == YearOfOrdinal((n \div 366) + 1, n)
    IN  MonthOfDay(y, 1, n - DaysBeforeYear(y))

\* date.max, and what stands for the OverflowError ("date value out of
\* range") that date arithmetic raises beyond it
date_max == <<9999, 12, 31>>
OverflowError == <<-1, -1, -1>>

\* date + timedelta(days=k), k of either sign
timedelta(d, k) ==
    IF toordinal(d) + k < 1 \/ toordinal(d) + k > toordinal(date_max)
    THEN OverflowError
    ELSE fromordinal(toordinal(d) + k)

replace_day(d, day) == <<d[1], d[2], day>>

(***************************************************************************)
(* Inputs of the front end: the account types a user can type, the amounts *)
(* and the dates of the transactions a user enters.                        *)
(***************************************************************************)
CHECKING == "checking"
SAVINGS == "savings"

AccountTypes == {CHECKING, SAVINGS, "other"}

Amounts == {<<50>>, <<-50>>}

Dates == {<<2024, 1, 15>>, <<2024, 1, 20>>, <<2024, 1, 31>>, <<2024, 2, 10>>}

(***************************************************************************)
(* Transaction                                                             *)
(***************************************************************************)
\* Transaction.__init__: the date is set only when a date is given
Transaction(amount, transaction_date, is_interest) ==
    [amount |-> amount,
     date |-> IF transaction_date = None THEN None ELSE transaction_date,
     is_interest |-> is_interest]

\* the rows of the account that a filter on the interest flag keeps
filter_is_interest(txns, flag) ==
    LET keep(t) == t.is_interest = flag IN SelectSeq(txns, keep)

\* func.max(Transaction._date) over the rows: None when there is no row
max_date(txns) ==
    IF txns = <<>> THEN None
    ELSE CHOOSE d \in {txns[i].date : i \in 1..Len(txns)} :
            \A i \in 1..Len(txns) : ~DateLT(d, txns[i].date)

\* a query flushes the session first; a row without its date cannot be written
flushable(txns) == \A i \in 1..Len(txns) : txns[i].date # None

(***************************************************************************)
(* Account                                                                 *)
(***************************************************************************)
\* Account.__init__
Account(account_type) == [account_type |-> account_type, balance |-> DecZero]

\* the outcome of a call: what it raised (or "None") and the account after it
Outcome(raised, latest_date, limit_type, balance, txns) ==
    [raised |-> raised, latest_date |-> latest_date, limit_type |-> limit_type,
     balance |-> balance, transactions |-> txns]

\* mutant: the latest transaction is taken in ascending order of date
out_of_sequence_first(txns, transaction_date) ==
    txns # <<>> /\ DateLT(transaction_date, txns[1].date)

\* mutant: a date equal to the latest one is rejected too
out_of_sequence_or_equal(txns, transaction_date) ==
    txns # <<>> /\ ~DateLT(max_date(txns), transaction_date)

\* add_transaction, the chronological check
out_of_sequence(txns, transaction_date) ==
    txns # <<>> /\ DateLT(transaction_date, max_date(txns))

\* mutant: the interest postings of the day are counted too
same_day_all_transactions(txns, transaction_date) ==
    Cardinality({i \in 1..Len(txns) : txns[i].date = transaction_date})

\* Savings._can_add_transaction, the transactions counted on the day
same_day_transactions(txns, transaction_date) ==
    Cardinality({i \in 1..Len(txns) :
        txns[i].date = transaction_date /\ ~txns[i].is_interest})

\* Savings._can_add_transaction, the transactions counted in the month
same_month_transactions(txns, transaction_date) ==
    Cardinality({i \in 1..Len(txns) :
        /\ txns[i].date[2] = transaction_date[2]
        /\ txns[i].date[1] = transaction_date[1]
        /\ ~txns[i].is_interest})

\* Savings._can_add_transaction, the daily limit
daily_limit_reached(txns, transaction_date) ==
    same_day_transactions(txns, transaction_date) >= 2

\* mutant: the monthly limit is reached one transaction late
monthly_limit_exceeded(txns, transaction_date) ==
    same_month_transactions(txns, transaction_date) > 5

\* Savings._can_add_transaction, the monthly limit
monthly_limit_reached(txns, transaction_date) ==
    same_month_transactions(txns, transaction_date) >= 5

\* mutant: the monthly limit is checked before the daily one
can_add_transaction_monthly_first(txns, transaction_date) ==
    IF monthly_limit_reached(txns, transaction_date) THEN "monthly"
    ELSE IF daily_limit_reached(txns, transaction_date) THEN "daily"
    ELSE "None"

\* mutant: both limits raise the error of the daily one
can_add_transaction_daily_tag(txns, transaction_date) ==
    IF daily_limit_reached(txns, transaction_date) THEN "daily"
    ELSE IF monthly_limit_reached(txns, transaction_date) THEN "daily"
    ELSE "None"

\* Savings._can_add_transaction: the limit it raises for, or "None"
can_add_transaction(txns, transaction_date) ==
    IF daily_limit_reached(txns, transaction_date) THEN "daily"
    ELSE IF monthly_limit_reached(txns, transaction_date) THEN "monthly"
    ELSE "None"

\* mutant: a transaction that empties the account is refused too
overdraws_or_empties(balance, amount) == ~DecLT(DecZero, DecAdd(balance, amount))

\* mutant: the overdraft check is applied to withdrawals only
overdraws_withdrawal(balance, amount) ==
    amount[1] < 0 /\ DecLT(DecAdd(balance, amount), DecZero)

\* mutant: the overdraft check tests the balance before the transaction
overdraws_before(balance, amount) == DecLT(balance, DecZero)

\* add_transaction, the overdraft check
overdraws(balance, amount) == DecLT(DecAdd(balance, amount), DecZero)

\* mutant: the balance is assigned the amount instead of increased by it
updated_balance_assigned(balance, amount) == amount

\* add_transaction, the balance update
updated_balance(balance, amount) == DecAdd(balance, amount)

\* mutant: the limits and the overdraft are checked for bypassed postings too
add_transaction_never_bypassed(self, txns, amount, transaction_date, bypass_limits, is_interest) ==
    IF out_of_sequence(txns, transaction_date)
    THEN Outcome("TransactionSequenceError", max_date(txns), "None", self.balance, txns)
    ELSE IF /\ self.account_type = SAVINGS
            /\ can_add_transaction(txns, transaction_date) # "None"
    THEN Outcome("TransactionLimitError", None,
                 can_add_transaction(txns, transaction_date), self.balance, txns)
    ELSE IF overdraws(self.balance, amount)
    THEN Outcome("OverdrawError", None, "None", self.balance, txns)
    ELSE Outcome("None", None, "None", updated_balance(self.balance, amount),
                 Append(txns, Transaction(amount, transaction_date, is_interest)))

\* mutant: the limits and the overdraft are checked before the order of dates
add_transaction_limits_first(self, txns, amount, transaction_date, bypass_limits, is_interest) ==
    IF /\ ~bypass_limits
       /\ self.account_type = SAVINGS
       /\ can_add_transaction(txns, transaction_date) # "None"
    THEN Outcome("TransactionLimitError", None,
                 can_add_transaction(txns, transaction_date), self.balance, txns)
    ELSE IF ~bypass_limits /\ overdraws(self.balance, amount)
    THEN Outcome("OverdrawError", None, "None", self.balance, txns)
    ELSE IF out_of_sequence(txns, transaction_date)
    THEN Outcome("TransactionSequenceError", max_date(txns), "None", self.balance, txns)
    ELSE Outcome("None", None, "None", updated_balance(self.balance, amount),
                 Append(txns, Transaction(amount, transaction_date, is_interest)))

\* mutant: the overdraft is checked before the limits of a savings account
add_transaction_overdraft_first(self, txns, amount, transaction_date, bypass_limits, is_interest) ==
    IF out_of_sequence(txns, transaction_date)
    THEN Outcome("TransactionSequenceError", max_date(txns), "None", self.balance, txns)
    ELSE IF ~bypass_limits /\ overdraws(self.balance, amount)
    THEN Outcome("OverdrawError", None, "None", self.balance, txns)
    ELSE IF /\ ~bypass_limits
            /\ self.account_type = SAVINGS
            /\ can_add_transaction(txns, transaction_date) # "None"
    THEN Outcome("TransactionLimitError", None,
                 can_add_transaction(txns, transaction_date), self.balance, txns)
    ELSE Outcome("None", None, "None", updated_balance(self.balance, amount),
                 Append(txns, Transaction(amount, transaction_date, is_interest)))

\* Account.add_transaction
add_transaction(self, txns, amount, transaction_date, bypass_limits, is_interest) ==
    IF out_of_sequence(txns, transaction_date)
    THEN Outcome("TransactionSequenceError", max_date(txns), "None", self.balance, txns)
    ELSE IF /\ ~bypass_limits
            /\ self.account_type = SAVINGS
            /\ can_add_transaction(txns, transaction_date) # "None"
    THEN Outcome("TransactionLimitError", None,
                 can_add_transaction(txns, transaction_date), self.balance, txns)
    ELSE IF ~bypass_limits /\ overdraws(self.balance, amount)
    THEN Outcome("OverdrawError", None, "None", self.balance, txns)
    ELSE Outcome("None", None, "None", updated_balance(self.balance, amount),
                 Append(txns, Transaction(amount, transaction_date, is_interest)))

\* Account._get_last_transaction_date
get_last_transaction_date(txns) ==
    LET latest_transaction_date == max_date(txns)
    IN  IF latest_transaction_date = None THEN None
        ELSE LET next_month == timedelta(replace_day(latest_transaction_date, 28), 4)
             IN  IF next_month = OverflowError THEN OverflowError
                 ELSE timedelta(next_month, 0 - next_month[3])

\* mutant: interest can always be applied
can_apply_interest_always(txns) == TRUE

\* mutant: interest can be applied only while there is no interest transaction
can_apply_interest_once(txns) == max_date(filter_is_interest(txns, TRUE)) = None

\* Account._can_apply_interest
can_apply_interest(txns) ==
    LET last_user_transaction_date == max_date(filter_is_interest(txns, FALSE))
        last_interest_application_date == max_date(filter_is_interest(txns, TRUE))
    IN  IF last_user_transaction_date = None THEN TRUE
        ELSE IF last_interest_application_date = None THEN TRUE
        ELSE ~(/\ last_user_transaction_date[2] = last_interest_application_date[2]
               /\ last_user_transaction_date[1] = last_interest_application_date[1])

(***************************************************************************)
(* Savings and Checking                                                    *)
(***************************************************************************)
savings_interest_rate == <<0, 41>>
checking_interest_rate == <<0, 8>>
fee_threshold == <<100>>
fee == <<5, 4400>>

\* mutant: the interest is cut to whole cents
savings_interest_cents(balance) ==
    LET interest == DecMul(balance, savings_interest_rate)
    IN  DecNorm(<<interest[1], (DecLimb(interest, 2) \div 100) * 100>>)

\* Savings.apply_interest_and_fees, the interest on a balance
savings_interest(balance) == DecMul(balance, savings_interest_rate)

\* Checking.apply_interest_and_fees, the interest on a balance
checking_interest(balance) == DecMul(balance, checking_interest_rate)

\* mutant: a balance of exactly the threshold is charged the fee too
at_or_below_fee_threshold(balance) == ~DecLT(fee_threshold, balance)

\* Checking.apply_interest_and_fees, the fee condition
below_fee_threshold(balance) == DecLT(balance, fee_threshold)

\* both branches compute _get_last_transaction_date, whose exception leaves
\* the call before anything is posted
savings_apply_interest_and_fees(self, txns) ==
    IF get_last_transaction_date(txns) = OverflowError
    THEN Outcome("OverflowError", None, "None", self.balance, txns)
    ELSE IF ~can_apply_interest(txns)
    THEN Outcome("TransactionSequenceError", get_last_transaction_date(txns),
                 "None", self.balance, txns)
    ELSE add_transaction(self, txns, savings_interest(self.balance),
                         get_last_transaction_date(txns), TRUE, TRUE)

checking_apply_interest_and_fees(self, txns) ==
    IF get_last_transaction_date(txns) = OverflowError
    THEN Outcome("OverflowError", None, "None", self.balance, txns)
    ELSE IF ~can_apply_interest(txns)
    THEN Outcome("TransactionSequenceError", get_last_transaction_date(txns),
                 "None", self.balance, txns)
    ELSE LET posted == add_transaction(self, txns, checking_interest(self.balance),
                                       get_last_transaction_date(txns), TRUE, TRUE)
         IN  IF posted.raised # "None" THEN posted
             ELSE IF ~below_fee_threshold(posted.balance) THEN posted
             ELSE IF ~flushable(posted.transactions)
             THEN Outcome("IntegrityError", None, "None", self.balance, txns)
             ELSE add_transaction([self EXCEPT !.balance = posted.balance],
                                  posted.transactions, DecNeg(fee),
                                  get_last_transaction_date(posted.transactions),
                                  TRUE, TRUE)

apply_interest_and_fees(self, txns) ==
    IF self.account_type = SAVINGS
    THEN savings_apply_interest_and_fees(self, txns)
    ELSE checking_apply_interest_and_fees(self, txns)

\* session.commit(): the pending rows are written, or none is
commit(outcome) ==
    IF outcome.raised = "None" /\ ~flushable(outcome.transactions)
    THEN [outcome EXCEPT !.raised = "IntegrityError"]
    ELSE outcome

(***************************************************************************)
(* Bank and the front end: one action per command.  last is the command    *)
(* just run, with what it raised; halted is set once an exception that the *)
(* front end does not handle has ended the process.  accrual_called is a   *)
(* history variable: the accounts on which interest and fees were called   *)
(* (with or without success) since their last accepted user transaction.   *)
(* last.listing is what the command printed, for the command that lists.   *)
(* pending and overlapped are used only where appends are not serialized   *)
(* (SpecInterleaved): pending holds, for each caller, the append that has   *)
(* passed its checks and not yet written; overlapped is a history          *)
(* variable, set once an append was checked while another append to the    *)
(* same account was pending.                                               *)
(***************************************************************************)
Handled == {"None", "OverdrawError", "TransactionLimitError", "TransactionSequenceError"}

Command(op, account_number, amount, date, raised, latest_date, limit_type) ==
    [op |-> op, account_number |-> account_number, amount |-> amount, date |-> date,
     raised |-> raised, latest_date |-> latest_date, limit_type |-> limit_type,
     listing |-> <<>>]

\* mutant: the new account takes the number of the last account
new_account_number_of_last ==
    IF DOMAIN accounts = {} THEN 1
    ELSE CHOOSE n \in DOMAIN accounts : \A m \in DOMAIN accounts : m <= n

\* Bank.open_account, the number of the new account
new_account_number ==
    IF DOMAIN accounts = {} THEN 1
    ELSE (CHOOSE n \in DOMAIN accounts : \A m \in DOMAIN accounts : m <= n) + 1

\* mutant: every type other than savings opens a checking account
open_account_default(account_type) ==
    /\ accounts' = [n \in DOMAIN accounts \cup {new_account_number} |->
                       IF n = new_account_number
                       THEN Account(IF account_type = SAVINGS THEN SAVINGS ELSE CHECKING)
                       ELSE accounts[n]]
    /\ transactions' = [n \in DOMAIN accounts \cup {new_account_number} |->
                       IF n = new_account_number THEN <<>> ELSE transactions[n]]
    /\ last' = Command("open_account",
                       IF account_type \in {CHECKING, SAVINGS} THEN new_account_number ELSE 0,
                       DecZero, None,
                       IF account_type \in {CHECKING, SAVINGS} THEN "None"
                       ELSE "UnboundLocalError", None, "None")
    /\ halted' = (account_type \notin {CHECKING, SAVINGS})

open_account(account_type) ==
    IF account_type \in {CHECKING, SAVINGS}
    THEN /\ accounts' = [n \in DOMAIN accounts \cup {new_account_number} |->
                            IF n = new_account_number THEN Account(account_type)
                            ELSE accounts[n]]
         /\ transactions' = [n \in DOMAIN accounts \cup {new_account_number} |->
                            IF n = new_account_number THEN <<>> ELSE transactions[n]]
         /\ last' = Command("open_account", new_account_number, DecZero, None,
                            "None", None, "None")
         /\ UNCHANGED halted
    ELSE /\ last' = Command("open_account", 0, DecZero, None,
                            "UnboundLocalError", None, "None")
         /\ halted' = TRUE
         /\ UNCHANGED <<accounts, transactions>>

\* what a command on account n leaves behind, given the outcome of its call
Settle(op, n, amount, date, outcome) ==
    /\ last' = Command(op, n, amount, date, outcome.raised, outcome.latest_date,
                       outcome.limit_type)
    /\ halted' = (outcome.raised \notin Handled)
    /\ IF outcome.raised = "None"
       THEN /\ accounts' = [accounts EXCEPT ![n].balance = outcome.balance]
            /\ transactions' = [transactions EXCEPT ![n] = outcome.transactions]
       ELSE UNCHANGED <<accounts, transactions>>

cli_open_account(account_type) ==
    /\ ~halted
    /\ open_account(account_type)
    /\ UNCHANGED <<accrual_called, pending, overlapped>>

cli_add_transaction(n, amount, valid_date) ==
    /\ ~halted
    /\ Settle("add_transaction", n, amount, valid_date,
              commit(add_transaction(accounts[n], transactions[n], amount, valid_date,
                                     FALSE, FALSE)))
    /\ accrual_called' = IF last'.raised = "None" THEN accrual_called \ {n}
                         ELSE accrual_called
    /\ UNCHANGED <<pending, overlapped>>

cli_interest_and_fees(n) ==
    /\ ~halted
    /\ Settle("apply_interest_and_fees", n, DecZero, None,
              commit(apply_interest_and_fees(accounts[n], transactions[n])))
    /\ accrual_called' = accrual_called \cup {n}
    /\ UNCHANGED <<pending, overlapped>>

\* the rows before which sorted() places a row of this date, counted in a
\* sequence already sorted in descending order
not_earlier(txns, date) == Cardinality({i \in 1..Len(txns) : ~DateLT(txns[i].date, date)})

\* the rows before which sorted() places a row of this date, counted in a
\* sequence already sorted in ascending order
not_later(txns, date) == Cardinality({i \in 1..Len(txns) : ~DateLT(date, txns[i].date)})

\* mutant: the transactions are sorted from the latest date to the earliest
RECURSIVE sorted_transactions_reversed(_)
sorted_transactions_reversed(txns) ==
    IF txns = <<>> THEN <<>>
    ELSE LET head == sorted_transactions_reversed(SubSeq(txns, 1, Len(txns) - 1))
             k == not_earlier(head, txns[Len(txns)].date)
         IN  SubSeq(head, 1, k) \o <<txns[Len(txns)]>> \o SubSeq(head, k + 1, Len(head))

\* Bank.list_transactions, sorted(account._transactions, key=date): a stable
\* sort, each row placed after the rows before it that are not later
RECURSIVE sorted_transactions(_)
sorted_transactions(txns) ==
    IF txns = <<>> THEN <<>>
    ELSE LET head == sorted_transactions(SubSeq(txns, 1, Len(txns) - 1))
             k == not_later(head, txns[Len(txns)].date)
         IN  SubSeq(head, 1, k) \o <<txns[Len(txns)]>> \o SubSeq(head, k + 1, Len(head))

\* Bank.list_transactions, for an account of the bank
list_transactions(account_number) == sorted_transactions(transactions[account_number])

cli_list_transactions(n) ==
    /\ ~halted
    /\ last' = [Command("list_transactions", n, DecZero, None, "None", None, "None")
                   EXCEPT !.listing = list_transactions(n)]
    /\ UNCHANGED <<accounts, transactions, halted, accrual_called, pending, overlapped>>

\* the number of transactions in the store
RECURSIVE CountRows(_, _)
CountRows(rows, S) ==
    IF S = {} THEN 0
    ELSE LET n == CHOOSE m \in S : TRUE
         IN  Len(rows[n]) + CountRows(rows, S \ {n})

Init ==
    /\ accounts = <<>>
    /\ transactions = <<>>
    /\ last = Command("none", 0, DecZero, None, "None", None, "None")
    /\ halted = FALSE
    /\ accrual_called = {}
    /\ pending = <<>>
    /\ overlapped = FALSE

(***************************************************************************)
(* Spec: a bank from its creation through the opening of its first account *)
(* and the commands on that account, up to MaxTransactions transactions.   *)
(***************************************************************************)
Next ==
    \/ \E account_type \in AccountTypes :
          /\ DOMAIN accounts = {}
          /\ cli_open_account(account_type)
    \/ \E n \in DOMAIN accounts : \E amount \in Amounts : \E valid_date \in Dates :
          /\ cli_add_transaction(n, amount, valid_date)
          /\ CountRows(transactions', DOMAIN transactions') <= MaxTransactions
    \/ \E n \in DOMAIN accounts :
          /\ cli_interest_and_fees(n)
          /\ CountRows(transactions', DOMAIN transactions') <= MaxTransactions

Spec == Init /\ [][Next]_vars

(***************************************************************************)
(* SpecSavings: the same bank when the account opened is a savings         *)
(* account, followed one transaction further.                              *)
(***************************************************************************)
NextSavings ==
    \/ /\ DOMAIN accounts = {}
       /\ cli_open_account(SAVINGS)
    \/ \E n \in DOMAIN accounts : \E amount \in Amounts : \E valid_date \in Dates :
          /\ cli_add_transaction(n, amount, valid_date)
          /\ CountRows(transactions', DOMAIN transactions') <= MaxTransactions + 1
    \/ \E n \in DOMAIN accounts :
          /\ cli_interest_and_fees(n)
          /\ CountRows(transactions', DOMAIN transactions') <= MaxTransactions + 1

SpecSavings == Init /\ [][NextSavings]_vars

(***************************************************************************)
(* SpecAccrual: the bank when the account opened is of either kind; a      *)
(* savings account is followed one transaction further than a checking     *)
(* account, so that interest is called on a month that has reached the     *)
(* monthly limit.                                                          *)
(***************************************************************************)
RowLimit(account) ==
    IF account.account_type = SAVINGS THEN MaxTransactions + 1 ELSE MaxTransactions

NextAccrual ==
    \/ \E account_type \in {CHECKING, SAVINGS} :
          /\ DOMAIN accounts = {}
          /\ cli_open_account(account_type)
    \/ \E n \in DOMAIN accounts : \E amount \in Amounts : \E valid_date \in Dates :
          /\ cli_add_transaction(n, amount, valid_date)
          /\ Len(transactions'[n]) <= RowLimit(accounts[n])
    \/ \E n \in DOMAIN accounts :
          /\ cli_interest_and_fees(n)
          /\ Len(transactions'[n]) <= RowLimit(accounts[n])

SpecAccrual == Init /\ [][NextAccrual]_vars

(***************************************************************************)
(* SpecBank: a bank of up to MaxAccounts accounts holding up to MaxLedger  *)
(* transactions together; accounts are opened at any time between the      *)
(* commands on the accounts already there.                                 *)
(***************************************************************************)
BankDates == {<<2024, 1, 15>>, <<2024, 1, 31>>}

NextBank ==
    \/ \E account_type \in AccountTypes :
          /\ Cardinality(DOMAIN accounts) < MaxAccounts
          /\ cli_open_account(account_type)
    \/ \E n \in DOMAIN accounts : \E amount \in Amounts : \E valid_date \in BankDates :
          /\ cli_add_transaction(n, amount, valid_date)
          /\ CountRows(transactions', DOMAIN transactions') <= MaxLedger
    \/ \E n \in DOMAIN accounts :
          /\ cli_interest_and_fees(n)
          /\ CountRows(transactions', DOMAIN transactions') <= MaxLedger

SpecBank == Init /\ [][NextBank]_vars

(***************************************************************************)
(* SpecListing: the bank with one account of either kind, whose            *)
(* transactions are listed at any time, up to MaxListed transactions.      *)
(***************************************************************************)
NextListing ==
    \/ \E account_type \in {CHECKING, SAVINGS} :
          /\ DOMAIN accounts = {}
          /\ cli_open_account(account_type)
    \/ \E n \in DOMAIN accounts : \E amount \in Amounts : \E valid_date \in Dates :
          /\ cli_add_transaction(n, amount, valid_date)
          /\ Len(transactions'[n]) <= MaxListed
    \/ \E n \in DOMAIN accounts :
          /\ cli_interest_and_fees(n)
          /\ Len(transactions'[n]) <= MaxListed
    \/ \E n \in DOMAIN accounts : cli_list_transactions(n)

SpecListing == Init /\ [][NextListing]_vars

(***************************************************************************)
(* SpecMonthEnd: an account of either kind that holds one deposit, dated   *)
(* any day of the first and the last year of the calendar and of years     *)
(* with and without a 29 February, on which interest and fees is called.   *)
(***************************************************************************)
Years == {1, 1900, 2000, 2023, 2024, 9999}

CalendarDates ==
    {d \in Years \X (1..12) \X (1..31) : d[3] <= DaysInMonth(d[1], d[2])}

InitMonthEnd ==
    \E account_type \in {CHECKING, SAVINGS} : \E valid_date \in CalendarDates :
        /\ accounts = <<[Account(account_type) EXCEPT !.balance = <<50>>]>>
        /\ transactions = <<<<Transaction(<<50>>, valid_date, FALSE)>>>>
        /\ last = Command("add_transaction", 1, <<50>>, valid_date, "None", None, "None")
        /\ halted = FALSE
        /\ accrual_called = {}
        /\ pending = <<>>
        /\ overlapped = FALSE

NextMonthEnd == \E n \in DOMAIN accounts : cli_interest_and_fees(n)

SpecMonthEnd == InitMonthEnd /\ [][NextMonthEnd]_vars

(***************************************************************************)
(* SpecInterleaved: one account to which two callers append without being  *)
(* serialized.  An append is the two steps of add_transaction: its checks  *)
(* (the latest date, the limits, the overdraft), then its writes (the new  *)
(* row and the balance), and a step of the other caller may come between   *)
(* them.  The balance the update starts from is read without               *)
(* synchronization: it is the balance at the write or the one seen by the  *)
(* checks.                                                                 *)
(***************************************************************************)
Threads == {1, 2}

begin_add_transaction(t, n, amount, transaction_date) ==
    /\ ~halted
    /\ t \notin DOMAIN pending
    /\ LET checked == add_transaction(accounts[n], transactions[n], amount,
                                      transaction_date, FALSE, FALSE)
       IN  IF checked.raised # "None"
           THEN /\ last' = Command("add_transaction", n, amount, transaction_date,
                                   checked.raised, checked.latest_date,
                                   checked.limit_type)
                /\ UNCHANGED <<pending, overlapped>>
           ELSE /\ pending' = [u \in DOMAIN pending \cup {t} |->
                                  IF u = t
                                  THEN [account_number |-> n, amount |-> amount,
                                        date |-> transaction_date,
                                        balance |-> accounts[n].balance]
                                  ELSE pending[u]]
                /\ overlapped' = (overlapped \/ \E u \in DOMAIN pending :
                                                    pending[u].account_number = n)
                /\ UNCHANGED last
    /\ UNCHANGED <<accounts, transactions, halted, accrual_called>>

end_add_transaction(t) ==
    /\ ~halted
    /\ t \in DOMAIN pending
    /\ LET n == pending[t].account_number
       IN  \E balance \in {accounts[n].balance, pending[t].balance} :
              /\ transactions' = [transactions EXCEPT ![n] =
                     Append(@, Transaction(pending[t].amount, pending[t].date, FALSE))]
              /\ accounts' = [accounts EXCEPT ![n].balance =
                     updated_balance(balance, pending[t].amount)]
              /\ last' = Command("add_transaction", n, pending[t].amount,
                                 pending[t].date, "None", None, "None")
    /\ pending' = [u \in DOMAIN pending \ {t} |-> pending[u]]
    /\ UNCHANGED <<halted, accrual_called, overlapped>>

NextInterleaved ==
    \/ \E account_type \in {CHECKING, SAVINGS} :
          /\ DOMAIN accounts = {}
          /\ cli_open_account(account_type)
    \/ \E t \in Threads : \E n \in DOMAIN accounts :
       \E amount \in Amounts : \E valid_date \in BankDates :
          /\ begin_add_transaction(t, n, amount, valid_date)
          /\ Len(transactions[n]) + Cardinality(DOMAIN pending') <= MaxAppends
    \/ \E t \in Threads : end_add_transaction(t)

SpecInterleaved == Init /\ [][NextInterleaved]_vars

(***************************************************************************)
(* SpecFee: the bank with one checking account, followed far enough for a  *)
(* fee to take the balance below zero and for the commands after that;     *)
(* the user also enters a deposit smaller than the fee.                    *)
(***************************************************************************)
FeeAmounts == {<<50>>, <<-50>>, <<3>>}

FeeDates == {<<2024, 1, 15>>, <<2024, 2, 10>>}

NextFee ==
    \/ /\ DOMAIN accounts = {}
       /\ cli_open_account(CHECKING)
    \/ \E n \in DOMAIN accounts : \E amount \in FeeAmounts : \E valid_date \in FeeDates :
          /\ cli_add_transaction(n, amount, valid_date)
          /\ Len(transactions'[n]) <= MaxFeeRows
    \/ \E n \in DOMAIN accounts :
          /\ cli_interest_and_fees(n)
          /\ Len(transactions'[n]) <= MaxFeeRows

SpecFee == Init /\ [][NextFee]_vars

(***************************************************************************)
(* Vocabulary of the properties.                                           *)
(***************************************************************************)
AmountsOf(txns) == [i \in 1..Len(txns) |-> txns[i].amount]

\* the sum of a sequence of Decimal values
RECURSIVE DecSum(_)
DecSum(amounts) ==
    IF amounts = <<>> THEN DecZero
    ELSE DecAdd(DecSum(SubSeq(amounts, 1, Len(amounts) - 1)), amounts[Len(amounts)])

UserRows(txns) == {i \in 1..Len(txns) : ~txns[i].is_interest}

InterestRows(txns) == {i \in 1..Len(txns) : txns[i].is_interest}

SameMonth(d, e) == d[1] = e[1] /\ d[2] = e[2]

\* d is the date of a transaction of txns that no transaction of txns is later than
IsLatestDate(txns, d) ==
    /\ \E i \in 1..Len(txns) : txns[i].date = d
    /\ \A i \in 1..Len(txns) : ~DateLT(d, txns[i].date)

\* some transaction of txns is dated after d
Precedes(d, txns) == \E i \in 1..Len(txns) : DateLT(d, txns[i].date)

UserOnDay(txns, d) == Cardinality({i \in UserRows(txns) : txns[i].date = d})

UserInMonth(txns, d) == Cardinality({i \in UserRows(txns) : SameMonth(txns[i].date, d)})

LastDayOfMonth(d) == <<d[1], d[2], DaysInMonth(d[1], d[2])>>

Unchanged(n) ==
    /\ accounts'[n] = accounts[n]
    /\ transactions'[n] = transactions[n]

\* the step appended exactly the user transaction (amount, date) to account n
Accepted(n, amount, date) ==
    /\ last'.raised = "None"
    /\ transactions'[n] = Append(transactions[n],
            [amount |-> amount, date |-> date, is_interest |-> FALSE])
    /\ accounts'[n].balance = DecAdd(accounts[n].balance, amount)
    /\ accounts'[n].account_type = accounts[n].account_type

\* the step is the command "add transaction" on account n with these inputs
AddStep(n, amount, date) ==
    /\ last'.op = "add_transaction"
    /\ last'.account_number = n
    /\ last'.amount = amount
    /\ last'.date = date
    /\ cli_add_transaction(n, amount, date)

\* the step is the command "interest and fees" on account n
AccrueStep(n) ==
    /\ last'.op = "apply_interest_and_fees"
    /\ last'.account_number = n
    /\ cli_interest_and_fees(n)

C2_DatesNonDecreasing ==
    \A n \in DOMAIN accounts :
        /\ \A i \in 1..Len(transactions[n]) : transactions[n][i].date # None
        /\ \A i, j \in 1..Len(transactions[n]) :
              i < j => ~DateLT(transactions[n][j].date, transactions[n][i].date)

\* a user transaction inserted after an interest posting, then a later posting
C2_Witness ==
    \E n \in DOMAIN accounts : \E i, j, k \in 1..Len(transactions[n]) :
        /\ i < j /\ j < k
        /\ transactions[n][i].is_interest
        /\ ~transactions[n][j].is_interest
        /\ transactions[n][k].is_interest
        /\ DateLT(transactions[n][i].date, transactions[n][k].date)

(***************************************************************************)
(* C3: an append to an account with transactions, dated strictly before    *)
(* the latest of them, fails with TransactionSequenceError carrying that   *)
(* latest date and changes nothing; an append dated the latest date is not *)
(* rejected with TransactionSequenceError.                                 *)
(***************************************************************************)
C3_SequenceError ==
    [][\A n \in DOMAIN accounts : \A amount \in Amounts : \A date \in Dates :
          AddStep(n, amount, date) =>
             /\ Precedes(date, transactions[n]) =>
                   /\ last'.raised = "TransactionSequenceError"
                   /\ IsLatestDate(transactions[n], last'.latest_date)
                   /\ Unchanged(n)
             /\ IsLatestDate(transactions[n], date) =>
                   last'.raised # "TransactionSequenceError"]_vars

\* an append dated before the latest transaction was just rejected
C3_Witness ==
    /\ last.op = "add_transaction"
    /\ last.raised = "TransactionSequenceError"
    /\ Len(transactions[last.account_number]) >= 2
    /\ IsLatestDate(transactions[last.account_number], last.latest_date)

(***************************************************************************)
(* C4: an append (never bypassed when a user makes it) that is in order    *)
(* and within the rate limits fails with OverdrawError, changing nothing,  *)
(* when balance + amount < 0, and is accepted otherwise; the balance is    *)
(* then >= 0.  This holds for both kinds of account.                       *)
(***************************************************************************)
C4_Overdraw ==
    [][\A n \in DOMAIN accounts : \A amount \in Amounts : \A date \in Dates :
          (/\ AddStep(n, amount, date)
           /\ ~Precedes(date, transactions[n])
           /\ \/ accounts[n].account_type = CHECKING
              \/ /\ UserOnDay(transactions[n], date) < 2
                 /\ UserInMonth(transactions[n], date) < 5) =>
             IF DecAdd(accounts[n].balance, amount)[1] < 0
             THEN last'.raised = "OverdrawError" /\ Unchanged(n)
             ELSE Accepted(n, amount, date) /\ accounts'[n].balance[1] >= 0]_vars

\* a withdrawal larger than the balance it met was just rejected
C4_Witness ==
    /\ last.op = "add_transaction"
    /\ last.raised = "OverdrawError"
    /\ DecLT(DecZero, accounts[last.account_number].balance)
    /\ DecLT(DecAdd(accounts[last.account_number].balance, last.amount), DecZero)

(***************************************************************************)
(* C5: in every reachable state no day holds more than 2 and no month (of  *)
(* a year) more than 5 non-interest transactions of a savings account.     *)
(***************************************************************************)
C5_SavingsLimits ==
    \A n \in DOMAIN accounts :
        accounts[n].account_type = SAVINGS =>
            \A i \in 1..Len(transactions[n]) :
                /\ UserOnDay(transactions[n], transactions[n][i].date) <= 2
                /\ UserInMonth(transactions[n], transactions[n][i].date) <= 5

\* a savings account with 5 user transactions in one month, 2 of them on one day,
\* and a transaction of the next month
C5_Witness ==
    \E n \in DOMAIN accounts : \E i \in 1..Len(transactions[n]) :
        /\ accounts[n].account_type = SAVINGS
        /\ UserOnDay(transactions[n], transactions[n][i].date) = 2
        /\ UserInMonth(transactions[n], transactions[n][i].date) = 5
        /\ UserRows(transactions[n]) = 1..6

(***************************************************************************)
(* C6: an append to a savings account dated a day that already holds 2     *)
(* non-interest transactions, and not before the latest date, fails with   *)
(* TransactionLimitError("daily") whatever its amount and changes nothing. *)
(***************************************************************************)
C6_DailyLimit ==
    [][\A n \in DOMAIN accounts : \A amount \in Amounts : \A date \in Dates :
          (/\ AddStep(n, amount, date)
           /\ accounts[n].account_type = SAVINGS
           /\ ~Precedes(date, transactions[n])
           /\ UserOnDay(transactions[n], date) = 2) =>
             /\ last'.raised = "TransactionLimitError"
             /\ last'.limit_type = "daily"
             /\ Unchanged(n)]_vars

\* a third deposit on a day was just rejected on a savings account
C6_Witness ==
    /\ last.op = "add_transaction"
    /\ last.raised = "TransactionLimitError"
    /\ last.limit_type = "daily"
    /\ last.amount = <<50>>
    /\ accounts[last.account_number].account_type = SAVINGS
    /\ UserOnDay(transactions[last.account_number], last.date) = 2
    /\ UserInMonth(transactions[last.account_number], last.date) < 5

(***************************************************************************)
(* C7: an append to a savings account dated a month that already holds 5   *)
(* non-interest transactions, on a day that holds fewer than 2, and not    *)
(* before the latest date, fails with TransactionLimitError("monthly") and *)
(* changes nothing.                                                        *)
(***************************************************************************)
C7_MonthlyLimit ==
    [][\A n \in DOMAIN accounts : \A amount \in Amounts : \A date \in Dates :
          (/\ AddStep(n, amount, date)
           /\ accounts[n].account_type = SAVINGS
           /\ ~Precedes(date, transactions[n])
           /\ UserInMonth(transactions[n], date) = 5
           /\ UserOnDay(transactions[n], date) < 2) =>
             /\ last'.raised = "TransactionLimitError"
             /\ last'.limit_type = "monthly"
             /\ Unchanged(n)]_vars

\* a sixth transaction in a month was just rejected on a savings account
C7_Witness ==
    /\ last.op = "add_transaction"
    /\ last.raised = "TransactionLimitError"
    /\ last.limit_type = "monthly"
    /\ accounts[last.account_number].account_type = SAVINGS
    /\ UserInMonth(transactions[last.account_number], last.date) = 5
    /\ UserOnDay(transactions[last.account_number], last.date) = 1

(***************************************************************************)
(* C8: interest and fees called again on an account that has a user        *)
(* transaction, with no user transaction accepted since the call before,   *)
(* fails with TransactionSequenceError and changes nothing.                *)
(***************************************************************************)
C8_SecondAccrualRefused ==
    [][\A n \in DOMAIN accounts :
          (/\ AccrueStep(n)
           /\ n \in accrual_called
           /\ UserRows(transactions[n]) # {}) =>
             /\ last'.raised = "TransactionSequenceError"
             /\ Unchanged(n)]_vars

\* the call was just refused on an account whose latest rows are the postings
\* of the call before
C8_Witness ==
    /\ last.op = "apply_interest_and_fees"
    /\ last.raised = "TransactionSequenceError"
    /\ last.account_number \in accrual_called
    /\ LET txns == transactions[last.account_number]
       IN  /\ UserRows(txns) # {}
           /\ txns[Len(txns)].is_interest

(***************************************************************************)
(* C9: interest and fees is refused exactly when the account has a         *)
(* non-interest and an interest transaction and the latest of the one and  *)
(* the latest of the other are in the same month of the same year.  So,    *)
(* when the last transaction is a user transaction of a month later than   *)
(* every posting, the call succeeds, and when it is a user transaction on  *)
(* the day of a posting (the month end), the call is refused.              *)
(***************************************************************************)
LatestOf(txns, rows, i) ==
    i \in rows /\ \A j \in rows : ~DateLT(txns[i].date, txns[j].date)

SameActivityMonth(txns) ==
    \E u \in UserRows(txns) : \E p \in InterestRows(txns) :
        /\ LatestOf(txns, UserRows(txns), u)
        /\ LatestOf(txns, InterestRows(txns), p)
        /\ SameMonth(txns[u].date, txns[p].date)

C9_RefusedExactlyWhen ==
    [][\A n \in DOMAIN accounts :
          AccrueStep(n) =>
             LET txns == transactions[n]
                 refused == last'.raised = "TransactionSequenceError"
             IN  /\ refused <=> SameActivityMonth(txns)
                 /\ (/\ txns # <<>>
                     /\ ~txns[Len(txns)].is_interest
                     /\ \A p \in InterestRows(txns) :
                           /\ DateLT(txns[p].date, txns[Len(txns)].date)
                           /\ ~SameMonth(txns[p].date, txns[Len(txns)].date)) =>
                        /\ last'.raised = "None"
                        /\ Len(transactions'[n]) > Len(txns)
                 /\ (/\ txns # <<>>
                     /\ ~txns[Len(txns)].is_interest
                     /\ \E p \in InterestRows(txns) :
                           txns[p].date = txns[Len(txns)].date) =>
                        refused /\ Unchanged(n)]_vars

\* the call just succeeded for a month later than the month of an earlier posting
C9_Witness ==
    /\ last.op = "apply_interest_and_fees"
    /\ last.raised = "None"
    /\ LET txns == transactions[last.account_number]
       IN  \E p, u, q \in 1..Len(txns) :
              /\ p < u /\ u < q
              /\ txns[p].is_interest /\ ~txns[u].is_interest /\ txns[q].is_interest
              /\ ~SameMonth(txns[p].date, txns[u].date)
              /\ SameMonth(txns[u].date, txns[q].date)

BalancesAtThreshold == {<<99, 9999>>, <<100>>, <<100, 1>>}

C12_AccrualBypassesLimits ==
    [][\A n \in DOMAIN accounts :
          AccrueStep(n) =>
             LET txns == transactions[n]
                 new == transactions'[n]
             IN  /\ last'.raised \notin {"OverdrawError", "TransactionLimitError"}
                 /\ (txns # <<>> /\ ~SameActivityMonth(txns)) =>
                       /\ last'.raised = "None"
                       /\ Len(new) > Len(txns)
                       /\ new[Len(txns) + 1].is_interest
                       /\ UserRows(new) = UserRows(txns)
                 /\ (/\ txns # <<>> /\ ~SameActivityMonth(txns)
                     /\ accounts[n].account_type = CHECKING
                     /\ accounts[n].balance[1] < 5) =>
                       /\ new[Len(new)].amount = <<-6, 5600>>
                       /\ accounts'[n].balance[1] < 0]_vars

\* interest was just posted on a savings account on the last day of a month
\* that holds 5 user transactions, 2 of them on that day
C12_Witness ==
    /\ last.op = "apply_interest_and_fees"
    /\ last.raised = "None"
    /\ accounts[last.account_number].account_type = SAVINGS
    /\ LET txns == transactions[last.account_number]
       IN  /\ txns[Len(txns)].is_interest
           /\ UserOnDay(txns, txns[Len(txns)].date) = 2
           /\ UserInMonth(txns, txns[Len(txns)].date) = 5

(***************************************************************************)
(* C13: the rate limit of a savings account does not count interest        *)
(* postings: an append that is in order is refused for a limit exactly     *)
(* when it would be on the account left after deleting every interest      *)
(* transaction, that is when that account holds 2 transactions on the day  *)
(* (daily) or else 5 in the month (monthly).  So a day holding one user    *)
(* transaction and an interest posting admits one more user transaction.   *)
(***************************************************************************)
WithoutInterest(txns) == LET user(t) == ~t.is_interest IN SelectSeq(txns, user)

OnDay(txns, d) == Cardinality({i \in 1..Len(txns) : txns[i].date = d})

InMonth(txns, d) == Cardinality({i \in 1..Len(txns) : SameMonth(txns[i].date, d)})

C13_InterestNotCounted ==
    [][\A n \in DOMAIN accounts : \A amount \in Amounts : \A date \in Dates :
          (/\ AddStep(n, amount, date)
           /\ accounts[n].account_type = SAVINGS
           /\ ~Precedes(date, transactions[n])) =>
             LET kept == WithoutInterest(transactions[n])
                 limit == IF OnDay(kept, date) >= 2 THEN "daily"
                          ELSE IF InMonth(kept, date) >= 5 THEN "monthly"
                          ELSE "None"
             IN  /\ last'.raised = "TransactionLimitError" <=> limit # "None"
                 /\ last'.limit_type = limit]_vars

\* a second user transaction was just accepted on a day of a savings account
\* that holds an interest posting
C13_Witness ==
    /\ last.op = "add_transaction"
    /\ last.raised = "None"
    /\ accounts[last.account_number].account_type = SAVINGS
    /\ LET txns == transactions[last.account_number]
       IN  /\ OnDay(txns, last.date) = 3
           /\ UserOnDay(txns, last.date) = 2
           /\ ~txns[Len(txns)].is_interest

(***************************************************************************)
(* C14: interest and fees called on any account, also one that was just    *)
(* opened and has no transaction, either fails with                        *)
(* TransactionSequenceError, changing nothing, or succeeds and appends     *)
(* only transactions dated a calendar date, the last day of the month of   *)
(* the latest transaction of the account; it ends in no other way.         *)
(***************************************************************************)
C14_AccrualOutcomes ==
    [][\A n \in DOMAIN accounts :
          AccrueStep(n) =>
             LET txns == transactions[n]
                 new == transactions'[n]
             IN  \/ last'.raised = "TransactionSequenceError" /\ Unchanged(n)
                 \/ /\ last'.raised = "None"
                    /\ ~halted'
                    /\ Len(new) > Len(txns)
                    /\ SubSeq(new, 1, Len(txns)) = txns
                    /\ \A i \in (Len(txns) + 1)..Len(new) :
                          /\ new[i].date # None
                          /\ \E d \in {txns[j].date : j \in 1..Len(txns)} :
                                /\ IsLatestDate(txns, d)
                                /\ new[i].date = LastDayOfMonth(d)]_vars

(***************************************************************************)
(* C15: every account opened, whatever commands ran between the openings,  *)
(* receives a number greater than the number of every account opened       *)
(* before it: 1 for the first, the greatest number plus 1 for the next.    *)
(* No account leaves the bank, so no two accounts share a number and the   *)
(* accounts already there are kept as they are.                            *)
(***************************************************************************)
OpenStep ==
    /\ last'.op = "open_account"
    /\ last'.raised = "None"
    /\ \E account_type \in {CHECKING, SAVINGS} : cli_open_account(account_type)

C15_AccountNumbers ==
    [][/\ DOMAIN accounts \subseteq DOMAIN accounts'
       /\ OpenStep =>
             LET number == last'.account_number
             IN  /\ \A m \in DOMAIN accounts : m < number
                 /\ DOMAIN accounts = {} => number = 1
                 /\ DOMAIN accounts # {} => number - 1 \in DOMAIN accounts
                 /\ DOMAIN accounts' = DOMAIN accounts \cup {number}
                 /\ DOMAIN transactions' = DOMAIN accounts'
                 /\ \A m \in DOMAIN accounts :
                       /\ accounts'[m] = accounts[m]
                       /\ transactions'[m] = transactions[m]
                 /\ accounts'[number].balance = DecZero
                 /\ transactions'[number] = <<>>]_vars

\* a second account was just opened in a bank whose first account holds
\* transactions
C15_Witness ==
    /\ last.op = "open_account"
    /\ last.raised = "None"
    /\ last.account_number = 2
    /\ DOMAIN accounts = {1, 2}
    /\ transactions[1] # <<>>
    /\ transactions[2] = <<>>

(***************************************************************************)
(* C16: listing the transactions of an account returns each of its         *)
(* transactions once, with its amount, date and interest flag, in          *)
(* ascending order of date and, for equal dates, in the order they were    *)
(* inserted, and changes nothing; a transaction just appended is therefore *)
(* in the listing as it was appended.                                      *)
(***************************************************************************)
ListStep(n) ==
    /\ last'.op = "list_transactions"
    /\ last'.account_number = n
    /\ cli_list_transactions(n)

\* the place of row i of txns among them: after the rows of an earlier date
\* and the rows of its date inserted before it
StableRank(txns, i) ==
    Cardinality({k \in 1..Len(txns) :
        \/ DateLT(txns[k].date, txns[i].date)
        \/ txns[k].date = txns[i].date /\ k <= i})

CommandStep(n) ==
    /\ last'.account_number = n
    /\ \/ last'.op = "add_transaction" /\ cli_add_transaction(n, last'.amount, last'.date)
       \/ last'.op = "apply_interest_and_fees" /\ cli_interest_and_fees(n)

BankCommands ==
    {[op |-> "add_transaction", amount |-> amount, date |-> date] :
        amount \in Amounts, date \in BankDates}
    \cup {[op |-> "apply_interest_and_fees", amount |-> DecZero, date |-> None]}

\* what command c on an account does, in a process that has ended or not
OutcomeOf(account, txns, ended, c) ==
    IF ended THEN Outcome("not run", None, "None", account.balance, txns)
    ELSE IF c.op = "add_transaction"
    THEN commit(add_transaction(account, txns, c.amount, c.date, FALSE, FALSE))
    ELSE commit(apply_interest_and_fees(account, txns))

C17_AccountsIndependent ==
    [][\A n \in DOMAIN accounts :
          CommandStep(n) =>
             /\ DOMAIN accounts' = DOMAIN accounts
             /\ \A m \in DOMAIN accounts \ {n} :
                   /\ accounts'[m] = accounts[m]
                   /\ transactions'[m] = transactions[m]
                   /\ \A c \in BankCommands :
                         OutcomeOf(accounts'[m], transactions'[m], halted', c)
                            = OutcomeOf(accounts[m], transactions[m], halted, c)]_vars

(***************************************************************************)
(* C18: for every date d of the calendar (in February of a leap year or    *)
(* not, in December, or the last day of its month already) the date that   *)
(* interest and fees computes from a latest transaction dated d, to date   *)
(* its postings or the error of a refused call, is the last day of the     *)
(* month and year of d; it is not before d, and computing it again from    *)
(* itself gives the same date.                                             *)
(***************************************************************************)
C18_MonthEnd ==
    [][\A n \in DOMAIN accounts :
          (AccrueStep(n) /\ transactions[n] # <<>>) =>
             LET txns == transactions[n]
                 month_end == IF last'.raised = "None"
                              THEN transactions'[n][Len(txns) + 1].date
                              ELSE last'.latest_date
             IN  /\ last'.raised \in {"None", "TransactionSequenceError"}
                 /\ \E d \in {txns[i].date : i \in 1..Len(txns)} :
                       /\ IsLatestDate(txns, d)
                       /\ month_end = LastDayOfMonth(d)
                       /\ ~DateLT(month_end, d)
                 /\ get_last_transaction_date(<<Transaction(DecZero, month_end, TRUE)>>)
                       = month_end]_vars

(***************************************************************************)
(* C19: the order of dates is checked before anything else: an append by   *)
(* a user dated strictly before the latest transaction fails with          *)
(* TransactionSequenceError, and changes nothing, also when the day or the *)
(* month of its date has reached a limit of a savings account or when its  *)
(* amount would take the balance below zero.                               *)
(***************************************************************************)
C19_SequenceFirst ==
    [][\A n \in DOMAIN accounts : \A amount \in Amounts : \A date \in Dates :
          (/\ AddStep(n, amount, date)
           /\ Precedes(date, transactions[n])
           /\ \/ /\ accounts[n].account_type = SAVINGS
                 /\ \/ UserOnDay(transactions[n], date) >= 2
                    \/ UserInMonth(transactions[n], date) >= 5
              \/ DecAdd(accounts[n].balance, amount)[1] < 0) =>
             /\ last'.raised = "TransactionSequenceError"
             /\ last'.limit_type = "None"
             /\ Unchanged(n)]_vars

\* a withdrawal larger than the balance, dated an earlier day that holds 2
\* user transactions, was just rejected on a savings account for its date
C19_Witness ==
    /\ last.op = "add_transaction"
    /\ last.raised = "TransactionSequenceError"
    /\ accounts[last.account_number].account_type = SAVINGS
    /\ UserOnDay(transactions[last.account_number], last.date) = 2
    /\ DecLT(DecAdd(accounts[last.account_number].balance, last.amount), DecZero)
    /\ DateLT(last.date, last.latest_date)

(***************************************************************************)
(* C20: an append to a savings account, in order, on a day that holds 2 or *)
(* more user transactions in a month that holds 5 or more, fails with      *)
(* TransactionLimitError tagged daily, not monthly.                        *)
(***************************************************************************)
C20_DailyBeforeMonthly ==
    [][\A n \in DOMAIN accounts : \A amount \in Amounts : \A date \in Dates :
          (/\ AddStep(n, amount, date)
           /\ accounts[n].account_type = SAVINGS
           /\ ~Precedes(date, transactions[n])
           /\ UserOnDay(transactions[n], date) >= 2
           /\ UserInMonth(transactions[n], date) >= 5) =>
             /\ last'.raised = "TransactionLimitError"
             /\ last'.limit_type = "daily"
             /\ last'.limit_type # "monthly"]_vars

\* an append was just rejected as daily on a savings account whose month
\* holds 5 user transactions
C20_Witness ==
    /\ last.op = "add_transaction"
    /\ last.raised = "TransactionLimitError"
    /\ last.limit_type = "daily"
    /\ accounts[last.account_number].account_type = SAVINGS
    /\ UserOnDay(transactions[last.account_number], last.date) = 2
    /\ UserInMonth(transactions[last.account_number], last.date) = 5

(***************************************************************************)
(* C21: on a savings account the rate limit is checked before the          *)
(* overdraft: an append by a user that is in order, on a day or in a month *)
(* that has reached its limit, with an amount that would take the balance  *)
(* below zero, fails with TransactionLimitError and not with               *)
(* OverdrawError.  On a checking account no append fails with              *)
(* TransactionLimitError.                                                  *)
(***************************************************************************)
C21_LimitBeforeOverdraft ==
    [][\A n \in DOMAIN accounts : \A amount \in Amounts : \A date \in Dates :
          AddStep(n, amount, date) =>
             /\ (/\ accounts[n].account_type = SAVINGS
                 /\ ~Precedes(date, transactions[n])
                 /\ \/ UserOnDay(transactions[n], date) >= 2
                    \/ UserInMonth(transactions[n], date) >= 5
                 /\ DecAdd(accounts[n].balance, amount)[1] < 0) =>
                   /\ last'.raised = "TransactionLimitError"
                   /\ Unchanged(n)
             /\ accounts[n].account_type = CHECKING =>
                   /\ last'.raised # "TransactionLimitError"
                   /\ last'.limit_type = "None"]_vars

\* a withdrawal larger than the balance was just rejected for the limit of
\* the day on a savings account
C21_Witness ==
    /\ last.op = "add_transaction"
    /\ last.raised = "TransactionLimitError"
    /\ accounts[last.account_number].account_type = SAVINGS
    /\ ~Precedes(last.date, transactions[last.account_number])
    /\ DecLT(DecAdd(accounts[last.account_number].balance, last.amount), DecZero)

(***************************************************************************)
(* C22: when two appends to an account are not serialized, so that both    *)
(* are checked against the same state before either writes, a state is     *)
(* reached that breaks an invariant of the account: a balance below zero   *)
(* after accepted user transactions, more than 2 user transactions on a    *)
(* day or 5 in a month of a savings account, or a balance that is not the  *)
(* sum of the amounts.  As long as every append has run from its checks to *)
(* its writes with no other append to the account between them, no such    *)
(* state is reached.                                                       *)
(***************************************************************************)
AccountInvariant(n) ==
    /\ accounts[n].balance[1] >= 0
    /\ accounts[n].balance = DecSum(AmountsOf(transactions[n]))
    /\ accounts[n].account_type = SAVINGS =>
          \A i \in 1..Len(transactions[n]) :
             /\ UserOnDay(transactions[n], transactions[n][i].date) <= 2
             /\ UserInMonth(transactions[n], transactions[n][i].date) <= 5

C22_SerializedAppends ==
    ~overlapped => \A n \in DOMAIN accounts : AccountInvariant(n)

\* two withdrawals, both checked against the balance left by one deposit,
\* were both written: the balance is below zero
C22_Witness ==
    /\ overlapped
    /\ pending = <<>>
    /\ \E n \in DOMAIN accounts :
          /\ ~AccountInvariant(n)
          /\ accounts[n].balance[1] < 0
          /\ accounts[n].balance = DecSum(AmountsOf(transactions[n]))
          /\ Len(transactions[n]) = 3

(***************************************************************************)
(* C23 as claimed: once interest and fees has posted at the month end D,   *)
(* every later append by a user dated before D (a later day of the same    *)
(* month included) is rejected with TransactionSequenceError carrying D,   *)
(* and only an append dated D or later is accepted.                        *)
(***************************************************************************)
C23_RejectedCarryingD ==
    [][\A n \in DOMAIN accounts : \A amount \in Amounts : \A date \in Dates :
          AddStep(n, amount, date) =>
             \A p \in InterestRows(transactions[n]) :
                LET D == transactions[n][p].date
                IN  /\ DateLT(date, D) =>
                          /\ last'.raised = "TransactionSequenceError"
                          /\ last'.latest_date = D
                          /\ Unchanged(n)
                    /\ last'.raised = "None" => ~DateLT(date, D)]_vars

(***************************************************************************)
(* C23 as amended: once interest and fees has posted at the month end D,   *)
(* every later append by a user dated before D (a later day of the same    *)
(* month included) is rejected with TransactionSequenceError, changing     *)
(* nothing, and only an append dated D or later is accepted; the error     *)
(* carries the latest date of the account, which is D as long as no        *)
(* transaction dated after D has been accepted.                            *)
(***************************************************************************)
C23_RejectedAfterAccrual ==
    [][\A n \in DOMAIN accounts : \A amount \in Amounts : \A date \in Dates :
          AddStep(n, amount, date) =>
             \A p \in InterestRows(transactions[n]) :
                LET D == transactions[n][p].date
                IN  /\ DateLT(date, D) =>
                          /\ last'.raised = "TransactionSequenceError"
                          /\ IsLatestDate(transactions[n], last'.latest_date)
                          /\ ~Precedes(D, transactions[n]) => last'.latest_date = D
                          /\ Unchanged(n)
                    /\ last'.raised = "None" => ~DateLT(date, D)]_vars

\* an append dated a day of the month of the last posting, before it, was
\* just rejected with the date of the posting
C23_Witness ==
    /\ last.op = "add_transaction"
    /\ last.raised = "TransactionSequenceError"
    /\ LET txns == transactions[last.account_number]
       IN  /\ txns # <<>>
           /\ txns[Len(txns)].is_interest
           /\ last.latest_date = txns[Len(txns)].date
           /\ SameMonth(last.date, last.latest_date)
           /\ \E u \in UserRows(txns) : DateLT(txns[u].date, last.date)

(***************************************************************************)
(* C24: no two successful calls of interest and fees post into the same    *)
(* month of the same year: in every reachable state each month of an       *)
(* account holds at most one interest posting and, on a checking account   *)
(* only, at most one fee posting.  (An account without a user transaction  *)
(* receives no posting at all.)                                            *)
(***************************************************************************)
FeeRows(txns) == {i \in InterestRows(txns) : txns[i].amount = <<-6, 5600>>}

C24_OneAccrualPerMonth ==
    \A n \in DOMAIN accounts :
        LET txns == transactions[n]
        IN  /\ \A p, q \in InterestRows(txns) \ FeeRows(txns) :
                  SameMonth(txns[p].date, txns[q].date) => p = q
            /\ \A p, q \in FeeRows(txns) :
                  SameMonth(txns[p].date, txns[q].date) => p = q
            /\ accounts[n].account_type = SAVINGS => FeeRows(txns) = {}
            /\ InterestRows(txns) # {} => UserRows(txns) # {}

\* an account with interest postings in two months, the second of which
\* also holds a user transaction made after the first posting
C24_Witness ==
    \E n \in DOMAIN accounts :
        LET txns == transactions[n]
        IN  \E p, u, q \in 1..Len(txns) :
               /\ p < u /\ u < q
               /\ txns[p].is_interest /\ ~txns[u].is_interest /\ txns[q].is_interest
               /\ txns[p].date = <<2024, 1, 31>>
               /\ txns[q].date = <<2024, 2, 29>>
               /\ last.op = "apply_interest_and_fees"
               /\ last.raised = "TransactionSequenceError"

(***************************************************************************)
(* C25: every successful call of interest and fees starts from a balance   *)
(* >= 0, so the interest it posts (the fee apart) is >= 0: on a checking   *)
(* account whose balance a fee has taken below zero the call is refused,   *)
(* changing nothing, until an accepted user transaction has brought the    *)
(* balance back to >= 0.                                                   *)
(***************************************************************************)
C25_AccrualOnNonNegative ==
    [][\A n \in DOMAIN accounts :
          AccrueStep(n) =>
             /\ last'.raised = "None" =>
                   /\ accounts[n].balance[1] >= 0
                   /\ transactions'[n][Len(transactions[n]) + 1].is_interest
                   /\ transactions'[n][Len(transactions[n]) + 1].amount[1] >= 0
             /\ accounts[n].balance[1] < 0 =>
                   /\ last'.raised = "TransactionSequenceError"
                   /\ Unchanged(n)]_vars

\* interest was just posted on a checking account whose balance a fee had
\* taken below zero and a deposit of a later month brought back above it
C25_Witness ==
    /\ last.op = "apply_interest_and_fees"
    /\ last.raised = "None"
    /\ LET txns == transactions[last.account_number]
       IN  \E f, u, p \in 1..Len(txns) :
              /\ f < u /\ u < p
              /\ txns[f].amount = <<-6, 5600>>
              /\ DecSum(AmountsOf(SubSeq(txns, 1, f)))[1] < 0
              /\ ~txns[u].is_interest
              /\ txns[p].is_interest /\ txns[p].amount[1] >= 0
              /\ txns[p].amount # DecZero

(***************************************************************************)
(* C26: in every reachable state the balance of a savings account is >= 0  *)
(* and the balance of a checking account is >= -5.44; a balance goes below *)
(* zero only by the fee posting of interest and fees on a checking         *)
(* account.                                                                *)
(***************************************************************************)
C26_BalanceFloor ==
    [][\A n \in DOMAIN accounts' :
          /\ accounts'[n].account_type = SAVINGS => accounts'[n].balance[1] >= 0
          /\ ~DecLT(accounts'[n].balance, <<-6, 5600>>)
          /\ (/\ n \in DOMAIN accounts
              /\ accounts[n].balance[1] >= 0
              /\ accounts'[n].balance[1] < 0) =>
                /\ accounts[n].account_type = CHECKING
                /\ last'.op = "apply_interest_and_fees"
                /\ last'.account_number = n
                /\ transactions'[n][Len(transactions'[n])]
                      = [amount |-> <<-6, 5600>>,
                         date |-> transactions'[n][Len(transactions'[n])].date,
                         is_interest |-> TRUE]]_vars

\* the fee was just posted on a checking account of balance 0
C26_Witness ==
    /\ last.op = "apply_interest_and_fees"
    /\ last.raised = "None"
    /\ accounts[last.account_number].account_type = CHECKING
    /\ accounts[last.account_number].balance = <<-6, 5600>>
    /\ UserRows(transactions[last.account_number]) # {}

(***************************************************************************)
(* C27: on a checking account whose balance is negative after a fee        *)
(* posting, a user deposit (amount > 0) dated no earlier than the latest   *)
(* transaction and smaller than the deficit fails with OverdrawError and   *)
(* changes nothing; a deposit is accepted only if it brings the balance to *)
(* >= 0.  A deposit dated before the fee posting fails with                *)
(* TransactionSequenceError, whatever its amount.                          *)
(***************************************************************************)
\* the step is a user deposit on checking account n, whose balance is negative
DepositOnDeficit(n) ==
    /\ accounts[n].account_type = CHECKING
    /\ accounts[n].balance[1] < 0
    /\ FeeRows(transactions[n]) # {}
    /\ last'.amount[1] >= 0
    /\ last'.amount # DecZero
    /\ \E amount \in FeeAmounts : \E date \in FeeDates : AddStep(n, amount, date)

SmallerThanDeficit(n) == DecLT(DecAdd(accounts[n].balance, last'.amount), DecZero)

\* as stated: every deposit smaller than the deficit fails with OverdrawError
C27_SmallDepositOverdraws ==
    [][\A n \in DOMAIN accounts :
          DepositOnDeficit(n) =>
             /\ SmallerThanDeficit(n) =>
                   last'.raised = "OverdrawError" /\ Unchanged(n)
             /\ last'.raised = "None" => ~SmallerThanDeficit(n)]_vars

C27_InOrderSmallDepositOverdraws ==
    [][\A n \in DOMAIN accounts :
          DepositOnDeficit(n) =>
             IF out_of_sequence(transactions[n], last'.date)
             THEN last'.raised = "TransactionSequenceError" /\ Unchanged(n)
             ELSE /\ SmallerThanDeficit(n) =>
                        last'.raised = "OverdrawError" /\ Unchanged(n)
                  /\ ~SmallerThanDeficit(n) =>
                        Accepted(n, last'.amount, last'.date)]_vars

\* a deposit of 3 dated after the fee posting was just refused on a balance
\* of -5.44
C27_Witness ==
    /\ last.op = "add_transaction"
    /\ last.raised = "OverdrawError"
    /\ last.amount = <<3>>
    /\ accounts[last.account_number].balance = <<-6, 5600>>
    /\ FeeRows(transactions[last.account_number]) # {}
    /\ ~out_of_sequence(transactions[last.account_number], last.date)

(***************************************************************************)
(* C28: open_account called with a type other than "checking" or "savings" *)
(* registers no account and consumes no account number: the accounts and   *)
(* their transactions are unchanged, and the number that the next valid    *)
(* open_account computes is the one it would have computed before the      *)
(* call.  (The call ends with UnboundLocalError.)                          *)
(***************************************************************************)
InvalidOpenStep ==
    /\ last'.op = "open_account"
    /\ \E account_type \in AccountTypes \ {CHECKING, SAVINGS} :
          cli_open_account(account_type)

C28_InvalidTypeOpensNothing ==
    [][InvalidOpenStep =>
          /\ accounts' = accounts
          /\ transactions' = transactions
          /\ new_account_number' = new_account_number
          /\ last'.raised = "UnboundLocalError"]_vars

\* an invalid type was just given in a bank that holds an account with a
\* transaction
C28_Witness ==
    /\ last.op = "open_account"
    /\ last.raised = "UnboundLocalError"
    /\ DOMAIN accounts = {1}
    /\ transactions[1] # <<>>
    /\ new_account_number = 2

====
